---------------------------- MODULE Spec2Model ----------------------------
(***************************************************************************)
(* A model of the crawl-and-score pipeline: WebsiteCrawler (crawler.py)    *)
(* and LeadScorer (scorer.py).                                             *)
(*                                                                         *)
(* A URL is a record [netloc, path]; an href found on a page is a record   *)
(* [kind, netloc, path] that urljoin resolves against the page's URL.      *)
(* A page body is the sequence of hrefs of its <a href> elements, in       *)
(* document order.  The corpus file website_context.txt is the sequence    *)
(* of the URLs of its [PAGE: url] blocks.                                  *)
(***************************************************************************)
EXTENDS Integers, Sequences, FiniteSets, TLC

VARIABLES
    base_url,        \* [instance -> URL]        self.base_url
    max_pages,       \* [instance -> Nat]        self.max_pages
    domain,          \* [instance -> netloc]     self.domain
    visited_urls,    \* [instance -> SUBSET URL] self.visited_urls
    pages_to_visit,  \* [instance -> Seq(URL)]   self.pages_to_visit
    pages_crawled,   \* [instance -> Nat]        local of crawl()
    current_url,     \* [instance -> URL]        local of crawl()
    html,            \* [instance -> Seq(Href)]  response.text of the page in hand
    pc,              \* [instance -> position of the instance in crawl()]
    fpos,            \* [instance -> offset of the instance's handle f]
    file,            \* website_context.txt: the blocks it holds
    log,             \* [instance -> effects in order: messages, gets, sleeps]
    qtag,            \* history: for each frontier entry, when and by whom it was appended
    enqueued,        \* history: [instance -> every URL ever appended to the frontier]
    order,           \* history: [instance -> the frontier entries fetched, in fetch order]
    served,          \* history: [instance -> set of <<page, resolved link>> served]
    nlinks,          \* history: [instance -> number of hrefs served so far]
    s_pc,            \* position of the scoring run
    s_caller,        \* who called evaluate_website: scorer.py's main or another caller
    s_content,       \* website_content handed to evaluate_website
    s_calls,         \* number of model.generate_content invocations
    s_response,      \* response.text of the collaborator
    s_loads,         \* number of json.loads invocations
    s_outcome,       \* which branch evaluate_website (or main) ended in
    s_result         \* the value evaluate_website returned

crawlerVars == <<base_url, max_pages, domain, visited_urls, pages_to_visit,
                 pages_crawled, current_url, html, pc, fpos, file, log,
                 qtag, enqueued, order, served, nlinks>>
scorerVars == <<s_pc, s_caller, s_content, s_calls, s_response, s_loads, s_outcome, s_result>>
vars == <<crawlerVars, scorerVars>>

-----------------------------------------------------------------------------
(* Bounds *)

\* the largest max_pages budget a crawler is constructed with
MaxBudget == 3
\* the largest number of hrefs the web server hands out during one run
MaxLinks == 4
\* the longest run of text the collaborator puts before or after its answer
MaxProse == 2
\* the most crawl() calls made on one instance
MaxCalls == 2
\* the budget of each of two interleaved runs, and the hrefs each is served
PairBudget == 2
PairLinks == 1

-----------------------------------------------------------------------------
(* URLs and hrefs *)

NetlocD == "shop.example"
NetlocE == "other.example"

Url(n, p) == [netloc |-> n, path |-> p]
Seed == Url(NetlocD, "/")
NoUrl == Url("", "")

\* the anchors a page may carry
Hrefs ==
    { [kind |-> "relative", netloc |-> "", path |-> "/"],
      [kind |-> "relative", netloc |-> "", path |-> "/a"],
      [kind |-> "absolute", netloc |-> NetlocD, path |-> "/b"],
      [kind |-> "absolute", netloc |-> NetlocE, path |-> "/"],
      [kind |-> "opaque", netloc |-> "", path |-> "mailto:x"],
      [kind |-> "malformed", netloc |-> "", path |-> "http://["] }

\* urllib.parse.urljoin(current_url, href): a relative reference takes the
\* network location of the page it is on; an absolute URL and a mailto: or
\* javascript: URL are returned as they are (the latter have no netloc).
\* For an href such as "http://[" urljoin raises ValueError (UrlJoinRaises).
UrlJoinRaises(href) == href.kind = "malformed"
UrlJoin(cur, href) ==
    IF href.kind = "relative"
    THEN Url(cur.netloc, href.path)
    ELSE Url(href.netloc, href.path)

RECURSIVE SeqsUpTo(_, _)
SeqsUpTo(S, n) ==
    IF n = 0 THEN {<<>>}
    ELSE LET shorter == SeqsUpTo(S, n - 1)
         IN shorter \cup {Append(s, x) : s \in {t \in shorter : Len(t) = n - 1}, x \in S}

InSeq(x, s) == \E k \in 1..Len(s) : s[k] = x
Range(s) == {s[k] : k \in 1..Len(s)}

-----------------------------------------------------------------------------
(* WebsiteCrawler *)

\* is_internal_link
IsInternalLinkAny(i, url) == TRUE
IsInternalLink(i, url) == url.netloc = domain[i] \/ url.netloc = ""

\* extract_links: visited_urls and pages_to_visit do not change during the
\* loop, so the list built is the resolved hrefs that pass the test, in order
ExtractLinks(i, html_content, cur) ==
    LET resolved == [k \in 1..Len(html_content) |-> UrlJoin(cur, html_content[k])]
        Keep(u) == /\ IsInternalLink(i, u)
                   /\ u \notin visited_urls[i]
                   /\ ~InSeq(u, pages_to_visit[i])
    IN SelectSeq(resolved, Keep)

\* extract_links raises when urljoin raises for one of the page's hrefs
ExtractLinksRaises(html_content) ==
    \E k \in 1..Len(html_content) : UrlJoinRaises(html_content[k])

\* list.pop(0): the index taken from the frontier
PopLast(q) == Len(q)
PopIndex(q) == 1

\* list.pop removes the entry it returns
Peek(q, k) == q
Remove(q, k) == [j \in 1..(Len(q) - 1) |-> IF j < k THEN q[j] ELSE q[j + 1]]

\* f.write at the handle's offset; a hole is what a write past the end leaves
Hole == Url("", "hole")
WriteAt(f, pos, block) ==
    [k \in 1..(IF pos + 1 > Len(f) THEN pos + 1 ELSE Len(f)) |->
        IF k = pos + 1 THEN block
        ELSE IF k <= Len(f) THEN f[k] ELSE Hole]

Entry(kind, url, n) == [kind |-> kind, url |-> url, n |-> n]

\* the test at the top of the loop body: current_url in self.visited_urls
NeverVisited(i, url) == FALSE
AlreadyVisited(i, url) == url \in visited_urls[i]

\* requests.get can succeed only for a URL that names a host: for any other
\* (mailto:, javascript:, https:///path) requests raises before sending
Fetchable(url) == url.netloc # ""

\* the while condition of crawl
LoopCondition(i) == pages_to_visit[i] # <<>> /\ pages_crawled[i] < max_pages[i]

\* crawl(): the start messages, pages_crawled = 0, open(..., 'w')
Crawl(i) ==
    /\ pc[i] = "init"
    /\ log' = [log EXCEPT ![i] = Append(@, Entry("start", base_url[i], max_pages[i]))]
    /\ pages_crawled' = [pages_crawled EXCEPT ![i] = 0]
    /\ file' = <<>>
    /\ fpos' = [fpos EXCEPT ![i] = 0]
    /\ pc' = [pc EXCEPT ![i] = "loop"]
    /\ UNCHANGED <<base_url, max_pages, domain, visited_urls, pages_to_visit,
                   current_url, html, qtag, enqueued, order, served, nlinks>>
    /\ UNCHANGED scorerVars

\* the number of crawl() calls run i has begun
Calls(i) == Cardinality({k \in 1..Len(log[i]) : log[i][k].kind = "start"})

\* crawl() called again on an instance whose crawl has returned: the same
\* statements as the first call. visited_urls and pages_to_visit are set in
\* __init__ only, so the call finds them as the call before left them.
CrawlAgain(i) ==
    /\ pc[i] = "done"
    /\ Calls(i) < MaxCalls
    /\ log' = [log EXCEPT ![i] = Append(@, Entry("start", base_url[i], max_pages[i]))]
    /\ pages_crawled' = [pages_crawled EXCEPT ![i] = 0]
    /\ file' = <<>>
    /\ fpos' = [fpos EXCEPT ![i] = 0]
    /\ pc' = [pc EXCEPT ![i] = "loop"]
    /\ UNCHANGED <<base_url, max_pages, domain, visited_urls, pages_to_visit,
                   current_url, html, qtag, enqueued, order, served, nlinks>>
    /\ UNCHANGED scorerVars

\* the loop test, pop(0), the visited check and the status message
Dequeue(i) ==
    /\ pc[i] = "loop"
    /\ LoopCondition(i)
    /\ LET k == PopIndex(pages_to_visit[i])
           cur == pages_to_visit[i][k]
           tag == qtag[i][k]
       IN /\ current_url' = [current_url EXCEPT ![i] = cur]
          /\ pages_to_visit' = [pages_to_visit EXCEPT ![i] = Remove(@, k)]
          /\ qtag' = [qtag EXCEPT ![i] = Remove(@, k)]
          /\ IF AlreadyVisited(i, cur)
             THEN /\ pc' = pc
                  /\ UNCHANGED <<log, order>>
             ELSE /\ pc' = [pc EXCEPT ![i] = "get"]
                  /\ log' = [log EXCEPT ![i] =
                                Append(@, Entry("status", cur, pages_crawled[i] + 1))]
                  /\ order' = [order EXCEPT ![i] =
                                Append(@, [url |-> cur, n |-> tag.n, by |-> tag.by])]
    /\ UNCHANGED <<base_url, max_pages, domain, visited_urls, pages_crawled, html,
                   fpos, file, enqueued, served, nlinks>>
    /\ UNCHANGED scorerVars

\* requests.get succeeds with a 2xx status: the block is written and flushed.
\* requests raises for a URL that names no host, so such a get never succeeds.
GetOk(i) ==
    /\ pc[i] = "get"
    /\ Fetchable(current_url[i])
    /\ \E body \in SeqsUpTo(Hrefs, MaxLinks - nlinks[i]) :
          /\ html' = [html EXCEPT ![i] = body]
          /\ nlinks' = [nlinks EXCEPT ![i] = @ + Len(body)]
          /\ served' = [served EXCEPT ![i] =
                @ \cup {<<current_url[i], UrlJoin(current_url[i], body[k])>> :
                            k \in {j \in 1..Len(body) : ~UrlJoinRaises(body[j])}}]
    /\ log' = [log EXCEPT ![i] = Append(@, Entry("get", current_url[i], 200))]
    /\ file' = WriteAt(file, fpos[i], current_url[i])
    /\ fpos' = [fpos EXCEPT ![i] = @ + 1]
    /\ pc' = [pc EXCEPT ![i] = "extract"]
    /\ UNCHANGED <<base_url, max_pages, domain, visited_urls, pages_to_visit,
                   pages_crawled, current_url, qtag, enqueued, order>>
    /\ UNCHANGED scorerVars

\* a failed fetch that is reported but not marked as visited
GetFailUnmarked(i) ==
    /\ pc[i] = "get"
    /\ log' = [log EXCEPT ![i] =
                  @ \o <<Entry("get", current_url[i], 0), Entry("error", current_url[i], 0)>>]
    /\ pc' = [pc EXCEPT ![i] = "loop"]
    /\ UNCHANGED <<base_url, max_pages, domain, visited_urls, pages_to_visit,
                   pages_crawled, current_url, html, fpos, file, qtag, enqueued,
                   order, served, nlinks>>
    /\ UNCHANGED scorerVars

\* requests.get or raise_for_status raises: the except branch
GetFail(i) ==
    /\ pc[i] = "get"
    /\ log' = [log EXCEPT ![i] =
                  @ \o <<Entry("get", current_url[i], 0), Entry("error", current_url[i], 0)>>]
    /\ visited_urls' = [visited_urls EXCEPT ![i] = @ \cup {current_url[i]}]
    /\ pc' = [pc EXCEPT ![i] = "loop"]
    /\ UNCHANGED <<base_url, max_pages, domain, pages_to_visit, pages_crawled,
                   current_url, html, fpos, file, qtag, enqueued, order, served, nlinks>>
    /\ UNCHANGED scorerVars

\* extract_links, extend, visited_urls.add, pages_crawled += 1, time.sleep(1)
Extract(i) ==
    /\ pc[i] = "extract"
    /\ ~ExtractLinksRaises(html[i])
    /\ LET new_links == ExtractLinks(i, html[i], current_url[i])
           tags == [k \in 1..Len(new_links) |->
                       [n |-> Len(enqueued[i]) + k, by |-> Len(order[i])]]
       IN /\ pages_to_visit' = [pages_to_visit EXCEPT ![i] = @ \o new_links]
          /\ qtag' = [qtag EXCEPT ![i] = @ \o tags]
          /\ enqueued' = [enqueued EXCEPT ![i] = @ \o new_links]
    /\ visited_urls' = [visited_urls EXCEPT ![i] = @ \cup {current_url[i]}]
    /\ pages_crawled' = [pages_crawled EXCEPT ![i] = @ + 1]
    /\ log' = [log EXCEPT ![i] = Append(@, Entry("sleep", current_url[i], 1))]
    /\ html' = [html EXCEPT ![i] = <<>>]
    /\ pc' = [pc EXCEPT ![i] = "loop"]
    /\ UNCHANGED <<base_url, max_pages, domain, current_url, fpos, file, order,
                   served, nlinks>>
    /\ UNCHANGED scorerVars

\* extract_links raises after the block was written: the except branch
ExtractFail(i) ==
    /\ pc[i] = "extract"
    /\ ExtractLinksRaises(html[i])
    /\ log' = [log EXCEPT ![i] = Append(@, Entry("error", current_url[i], 0))]
    /\ visited_urls' = [visited_urls EXCEPT ![i] = @ \cup {current_url[i]}]
    /\ html' = [html EXCEPT ![i] = <<>>]
    /\ pc' = [pc EXCEPT ![i] = "loop"]
    /\ UNCHANGED <<base_url, max_pages, domain, pages_to_visit, pages_crawled,
                   current_url, fpos, file, qtag, enqueued, order, served, nlinks>>
    /\ UNCHANGED scorerVars

\* the loop condition fails: the file is closed and the completion messages go out
LoopExit(i) ==
    /\ pc[i] = "loop"
    /\ ~LoopCondition(i)
    /\ log' = [log EXCEPT ![i] =
                  @ \o <<Entry("completed", NoUrl, pages_crawled[i]),
                         Entry("saved", NoUrl, 0)>>]
    /\ pc' = [pc EXCEPT ![i] = "done"]
    /\ UNCHANGED <<base_url, max_pages, domain, visited_urls, pages_to_visit,
                   pages_crawled, current_url, html, fpos, file, qtag, enqueued,
                   order, served, nlinks>>
    /\ UNCHANGED scorerVars

\* KeyboardInterrupt, the one cancellation crawl() and main() know: it is not an
\* Exception, so the except branch of the loop lets it through; it unwinds
\* crawl() from wherever the run stands, the with statement closes the file,
\* the completion messages are skipped and main() reports the interruption
Interrupt(i) ==
    /\ pc[i] \in {"loop", "get", "extract"}
    /\ log' = [log EXCEPT ![i] = Append(@, Entry("interrupted", current_url[i], 0))]
    /\ pc' = [pc EXCEPT ![i] = "interrupted"]
    /\ UNCHANGED <<base_url, max_pages, domain, visited_urls, pages_to_visit,
                   pages_crawled, current_url, html, fpos, file, qtag, enqueued,
                   order, served, nlinks>>
    /\ UNCHANGED scorerVars

\* WebsiteCrawler.__init__ for the instances I, each with a budget from B
CrawlerInit(I, B) ==
    /\ base_url = [i \in I |-> Seed]
    /\ max_pages \in [I -> B]
    /\ domain = [i \in I |-> Seed.netloc]
    /\ visited_urls = [i \in I |-> {}]
    /\ pages_to_visit = [i \in I |-> <<Seed>>]
    /\ pages_crawled = [i \in I |-> 0]
    /\ current_url = [i \in I |-> NoUrl]
    /\ html = [i \in I |-> <<>>]
    /\ pc = [i \in I |-> "init"]
    /\ fpos = [i \in I |-> 0]
    /\ file = <<>>
    /\ log = [i \in I |-> <<>>]
    /\ qtag = [i \in I |-> <<[n |-> 1, by |-> 0]>>]
    /\ enqueued = [i \in I |-> <<Seed>>]
    /\ order = [i \in I |-> <<>>]
    /\ served = [i \in I |-> {}]
    /\ nlinks = [i \in I |-> 0]

ScorerIdle ==
    /\ s_pc = "idle"
    /\ s_caller = "none"
    /\ s_content = <<>>
    /\ s_calls = 0
    /\ s_response = <<>>
    /\ s_loads = 0
    /\ s_outcome = "none"
    /\ s_result = [kind |-> "none"]

Init == CrawlerInit({1}, 1..MaxBudget) /\ ScorerIdle

Instances == DOMAIN pc

Next ==
    \/ \E i \in Instances : Crawl(i)
    \/ \E i \in Instances : Dequeue(i)
    \/ \E i \in Instances : GetOk(i)
    \/ \E i \in Instances : GetFail(i)
    \/ \E i \in Instances : Extract(i)
    \/ \E i \in Instances : ExtractFail(i)
    \/ \E i \in Instances : LoopExit(i)

Spec == Init /\ [][Next]_vars

\* the loop runs on: no step of crawl() blocks forever (the get has a timeout)
LiveSpec == Init /\ [][Next]_vars /\ WF_vars(Next)

\* a crawl the user may interrupt from the keyboard
InterruptNext ==
    \/ Next
    \/ \E i \in Instances : Interrupt(i)

InterruptSpec == Init /\ [][InterruptNext]_vars

\* a crawler whose crawl() the host may call again
ReuseNext ==
    \/ Next
    \/ \E i \in Instances : CrawlAgain(i)

ReuseSpec == Init /\ [][ReuseNext]_vars

\* two crawlers of one process (two sessions of the app), their steps
\* interleaved: each has its own attributes, and both open the one path
\* 'website_context.txt'. Every run has the budget PairBudget and its site
\* carries PairLinks links in all.
PairInit ==
    /\ base_url = [i \in {1, 2} |-> Seed]
    /\ max_pages = [i \in {1, 2} |-> PairBudget]
    /\ domain = [i \in {1, 2} |-> Seed.netloc]
    /\ visited_urls = [i \in {1, 2} |-> {}]
    /\ pages_to_visit = [i \in {1, 2} |-> <<Seed>>]
    /\ pages_crawled = [i \in {1, 2} |-> 0]
    /\ current_url = [i \in {1, 2} |-> NoUrl]
    /\ html = [i \in {1, 2} |-> <<>>]
    /\ pc = [i \in {1, 2} |-> "init"]
    /\ fpos = [i \in {1, 2} |-> 0]
    /\ file = <<>>
    /\ log = [i \in {1, 2} |-> <<>>]
    /\ qtag = [i \in {1, 2} |-> <<[n |-> 1, by |-> 0]>>]
    /\ enqueued = [i \in {1, 2} |-> <<Seed>>]
    /\ order = [i \in {1, 2} |-> <<>>]
    /\ served = [i \in {1, 2} |-> {}]
    /\ nlinks = [i \in {1, 2} |-> MaxLinks - PairLinks]
    /\ ScorerIdle

PairSpec == PairInit /\ [][Next]_vars

-----------------------------------------------------------------------------
(* Text: a string is a sequence of characters.  "p" is a letter of prose,   *)
(* " " is whitespace.  Inside JSON, "t" stands for the member               *)
(* "total_score": 85, "d" for "disqualified": false, "s" for the key and    *)
(* colon "scores": (a value must follow) and "n" for a number.              *)

\* str.strip()
RECURSIVE LStrip(_)
LStrip(t) == IF t # <<>> /\ Head(t) = " " THEN LStrip(Tail(t)) ELSE t
RECURSIVE RStrip(_)
RStrip(t) == IF t # <<>> /\ t[Len(t)] = " " THEN RStrip(SubSeq(t, 1, Len(t) - 1)) ELSE t
Strip(t) == RStrip(LStrip(t))

Min(S) == CHOOSE x \in S : \A y \in S : x <= y
Max(S) == CHOOSE x \in S : \A y \in S : x >= y

\* str.find(c) and str.rfind(c): a 0-based index, or -1
Find(t, c) ==
    LET at == {k \in 1..Len(t) : t[k] = c}
    IN IF at = {} THEN -1 ELSE Min(at) - 1
RFind(t, c) ==
    LET at == {k \in 1..Len(t) : t[k] = c}
    IN IF at = {} THEN -1 ELSE Max(at) - 1

\* t[a:b] for a, b >= 0
Slice(t, a, b) == SubSeq(t, a + 1, b)

\* json.loads.  A parsed object is [kind |-> "obj", t, d, s]: whether it has
\* total_score, whether it has disqualified, and <<v>> for the value v of
\* scores (<<>> without it); a repeated key keeps its last value.
JsonError == [kind |-> "error"]
JsonNumber == [kind |-> "num"]
EmptyObject == [kind |-> "obj", t |-> FALSE, d |-> FALSE, s |-> <<>>]
At(t, k) == IF k <= Len(t) THEN t[k] ELSE "eof"
Parsed(v, k) == [ok |-> TRUE, val |-> v, pos |-> k]
Unparsed == [ok |-> FALSE, val |-> JsonError, pos |-> 0]

RECURSIVE SkipWs(_, _)
SkipWs(t, k) == IF At(t, k) = " " THEN SkipWs(t, k + 1) ELSE k

RECURSIVE ParseValue(_, _)
RECURSIVE ParseMembers(_, _, _)
\* a value starting at position k: a number or an object
ParseValue(t, k) ==
    IF At(t, k) = "n" THEN Parsed(JsonNumber, k + 1)
    ELSE IF At(t, k) = "{"
         THEN LET j == SkipWs(t, k + 1)
              IN IF At(t, j) = "}" THEN Parsed(EmptyObject, j + 1)
                 ELSE ParseMembers(t, j, EmptyObject)
         ELSE Unparsed
\* the members of an object from position k on, up to its closing brace
ParseMembers(t, k, acc) ==
    LET c == At(t, k)
        member ==
            IF c = "t" THEN Parsed([acc EXCEPT !.t = TRUE], k + 1)
            ELSE IF c = "d" THEN Parsed([acc EXCEPT !.d = TRUE], k + 1)
            ELSE IF c = "s"
                 THEN LET v == ParseValue(t, SkipWs(t, k + 1))
                      IN IF v.ok THEN Parsed([acc EXCEPT !.s = <<v.val>>], v.pos)
                         ELSE Unparsed
                 ELSE Unparsed
    IN IF ~member.ok THEN Unparsed
       ELSE LET j == SkipWs(t, member.pos)
            IN IF At(t, j) = "}" THEN Parsed(member.val, j + 1)
               ELSE IF At(t, j) = "," THEN ParseMembers(t, SkipWs(t, j + 1), member.val)
               ELSE Unparsed

JsonLoads(t) ==
    LET v == ParseValue(t, SkipWs(t, 1))
    IN IF v.ok /\ SkipWs(t, v.pos) = Len(t) + 1 THEN v.val ELSE JsonError

-----------------------------------------------------------------------------
(* LeadScorer *)

None == [kind |-> "None"]

\* what website_context.txt may hold when it is read
Contents == {<<>>, <<" ">>, <<" ", " ">>, <<"p">>, <<" ", "p", " ">>}

\* what the collaborator may answer: prose, an answer, prose
Bodies ==
    { <<>>,
      <<"{", "t", ",", "d", ",", "s", "{", "}", "}">>,
      <<"{", " ", "d", " ", ",", "t", ",", "s", " ", "{", "t", "}", " ", "}">>,
      <<"{", "t", "}">>,
      <<"{", "}">>,
      <<"{", "t", ",", "d", ",", "s", "n", "}">>,
      <<"{", "t", ",", "}">>,
      <<"{", "t", " ", "d", "}">>,
      <<"{", "s", "{", "t", ",", "d", "}">>,
      <<"{", "t", ",", "d", ",", "s", "{", "}", "}", "p", "{", "t", "}">> }
ProseChars == {"p", " ", "{", "}"}
Responses ==
    {a \o b \o c : a \in SeqsUpTo(ProseChars, MaxProse), b \in Bodies,
                   c \in SeqsUpTo(ProseChars, MaxProse)}

\* main's test of the content it read: not website_content.strip()
IsBlank(content) == Strip(content) = <<>>

\* json_end = response_text.rfind('}') + 1
FirstEnd(text) == Find(text, "}") + 1
JsonEnd(text) == RFind(text, "}") + 1

\* scorer.py's main(): the content is read and tested before evaluate_website
Main(content) ==
    /\ s_pc = "idle"
    /\ s_caller' = "main"
    /\ s_content' = content
    /\ IF IsBlank(content)
       THEN /\ s_pc' = "exit"
            /\ s_outcome' = "EmptyFile"
       ELSE /\ s_pc' = "evaluate"
            /\ UNCHANGED s_outcome
    /\ UNCHANGED <<s_calls, s_response, s_loads, s_result>>
    /\ UNCHANGED crawlerVars

\* evaluate_website called by any other caller, with any content
EvaluateWebsite(content) ==
    /\ s_pc = "idle"
    /\ s_caller' = "other"
    /\ s_content' = content
    /\ s_pc' = "evaluate"
    /\ UNCHANGED <<s_calls, s_response, s_loads, s_outcome, s_result>>
    /\ UNCHANGED crawlerVars

\* model.generate_content(prompt) returns and response.text is read
GenerateOk ==
    /\ s_pc = "evaluate"
    /\ s_calls' = s_calls + 1
    /\ \E text \in Responses : s_response' = text
    /\ s_pc' = "extract"
    /\ UNCHANGED <<s_caller, s_content, s_loads, s_outcome, s_result>>
    /\ UNCHANGED crawlerVars

\* a failed call that is tried again instead of being reported
GenerateRetry ==
    /\ s_pc = "evaluate"
    /\ s_calls < 3
    /\ s_calls' = s_calls + 1
    /\ UNCHANGED <<s_pc, s_caller, s_content, s_response, s_loads, s_outcome, s_result>>
    /\ UNCHANGED crawlerVars

\* model.generate_content(prompt) raises: except Exception
GenerateFail ==
    /\ s_pc = "evaluate"
    /\ s_calls' = s_calls + 1
    /\ s_outcome' = "Error calling Gemini API"
    /\ s_result' = None
    /\ s_pc' = "returned"
    /\ UNCHANGED <<s_caller, s_content, s_response, s_loads>>
    /\ UNCHANGED crawlerVars

\* the rest of evaluate_website: strip, find, rfind, the slice, json.loads
ExtractJson ==
    /\ s_pc = "extract"
    /\ LET response_text == Strip(s_response)
           json_start == Find(response_text, "{")
           json_end == JsonEnd(response_text)
       IN IF json_start # -1 /\ json_end # 0
          THEN LET result == JsonLoads(Slice(response_text, json_start, json_end))
               IN /\ s_loads' = s_loads + 1
                  /\ IF result = JsonError
                     THEN /\ s_outcome' = "Error parsing JSON response"
                          /\ s_result' = None
                     ELSE /\ s_outcome' = "returned result"
                          /\ s_result' = result
          ELSE /\ s_outcome' = "Could not extract JSON"
               /\ s_result' = None
               /\ UNCHANGED s_loads
    /\ s_pc' = "returned"
    /\ UNCHANGED <<s_caller, s_content, s_calls, s_response>>
    /\ UNCHANGED crawlerVars

ScorerInit == CrawlerInit({1}, {1}) /\ ScorerIdle

ScorerNext ==
    \/ \E content \in Contents : Main(content)
    \/ \E content \in Contents : EvaluateWebsite(content)
    \/ GenerateOk
    \/ GenerateFail
    \/ ExtractJson

ScorerSpec == ScorerInit /\ [][ScorerNext]_vars

-----------------------------------------------------------------------------
(* Properties of the crawl *)

Urls(s) == [k \in 1..Len(s) |-> s[k].url]
\* the fetches that failed: a get that raised or came back without a 2xx status
Failed(i) == {e \in Range(log[i]) : e.kind = "get" /\ e.n = 0}

\* C1: in every reachable state of a crawl the number of URLs in the visited
\* set is at most max_pages.
C1_VisitedWithinBudget ==
    \A i \in Instances : Cardinality(visited_urls[i]) <= max_pages[i]

\* C2: no URL appears in more than one [PAGE: url] block of the corpus,
\* whatever the link graph (self links, repeated links, shared targets).
C2_NoUrlTwiceInCorpus ==
    \A j, k \in 1..Len(file) : file[j] = file[k] => j = k

\* a finished crawl that popped a URL it had already visited: a link was
\* appended twice (a self link or a repeated link) and two pages were written
C2_Witness ==
    \E i \in Instances :
        /\ pc[i] = "done"
        /\ Len(enqueued[i]) > Cardinality(Range(enqueued[i]))
        /\ Range(enqueued[i]) \subseteq visited_urls[i]
        /\ Len(file) >= 2

\* C3: every URL written to the corpus has the seed's network location; a
\* link resolving to another network location is never enqueued and never
\* fetched; a resolved link with no network location never yields a block.
C3_DomainConfinement ==
    \A i \in Instances :
        /\ \A k \in 1..Len(file) : file[k].netloc = domain[i]
        /\ \A u \in Range(enqueued[i]) : u.netloc \in {domain[i], ""}
        /\ \A e \in Range(log[i]) : e.kind = "get" => e.url.netloc \in {domain[i], ""}

\* a finished crawl that was served an external link and a mailto: link and
\* tried to fetch the latter
C3_Witness ==
    \E i \in Instances :
        /\ pc[i] = "done"
        /\ \E e \in served[i] : e[2].netloc = NetlocE
        /\ \E e \in Range(log[i]) : e.kind = "get" /\ e.url.netloc = ""
        /\ Len(file) >= 2

\* C4: the frontier is strictly FIFO: URLs are fetched in the order they were
\* appended; if A is visited before B, every link newly enqueued while
\* processing A is visited before every link newly enqueued while processing
\* B; the corpus lists pages in visit order.
C4_FifoOrder ==
    \A i \in Instances :
        /\ \A j, k \in 1..Len(order[i]) : j < k => order[i][j].n < order[i][k].n
        /\ \A j, k \in 1..Len(order[i]) :
              order[i][j].by < order[i][k].by => j < k
        /\ \A j \in 1..Len(order[i]), k \in 1..Len(qtag[i]) :
              order[i][j].n < qtag[i][k].n
        /\ LET InFile(u) == InSeq(u, file)
           IN SelectSeq(Urls(order[i]), InFile) = file

\* two links appended while processing the first page and one appended while
\* processing the second were fetched, in that order
C4_Witness ==
    \E i \in Instances :
        \E j \in 1..Len(order[i]) :
            /\ j + 2 <= Len(order[i])
            /\ order[i][j].by = 1
            /\ order[i][j + 1].by = 1
            /\ order[i][j + 2].by = 2

\* the pages of the seed's network location reachable from the seed over the
\* links served; a page that was never fetched contributes no links, which is
\* the smallest site that agrees with what the crawl has seen
RECURSIVE ReachFrom(_, _)
ReachFrom(i, S) ==
    LET more == S \cup {e[2] : e \in {d \in served[i] :
                                        d[1] \in S /\ d[2].netloc = domain[i]}}
    IN IF more = S THEN S ELSE ReachFrom(i, more)
Reach(i) == ReachFrom(i, {base_url[i]})

\* C5: when every fetch succeeds and the budget is at least the number of
\* internal pages reachable from the seed, the crawl fetches exactly those
\* pages, each exactly once, and no external page.
C5_ExactReachableSet ==
    \A i \in Instances :
        (pc[i] = "done" /\ Failed(i) = {} /\ max_pages[i] >= Cardinality(Reach(i)))
        => /\ Range(Urls(order[i])) = Reach(i)
           /\ Len(order[i]) = Cardinality(Reach(i))
           /\ Range(file) = Reach(i)
           /\ Len(file) = Cardinality(Reach(i))

\* the same for runs in which no page carried an href that urljoin rejects,
\* so that no link extraction raised
C5_OnResolvableSites ==
    \A i \in Instances :
        (/\ pc[i] = "done"
         /\ \A e \in Range(log[i]) : e.kind # "error"
         /\ max_pages[i] >= Cardinality(Reach(i)))
        => /\ Range(Urls(order[i])) = Reach(i)
           /\ Len(order[i]) = Cardinality(Reach(i))
           /\ Range(file) = Reach(i)
           /\ Len(file) = Cardinality(Reach(i))

\* the three-page site: root links to /a and /b, /a links to an external
\* domain and back to root
C5_Witness ==
    \E i \in Instances :
        /\ pc[i] = "done"
        /\ Failed(i) = {}
        /\ served[i] = { <<Seed, Url(NetlocD, "/a")>>, <<Seed, Url(NetlocD, "/b")>>,
                         <<Url(NetlocD, "/a"), Url(NetlocE, "/")>>,
                         <<Url(NetlocD, "/a"), Seed>> }
        /\ file = <<Seed, Url(NetlocD, "/a"), Url(NetlocD, "/b")>>

Completed(i) ==
    /\ pc[i] = "done"
    /\ \E e \in Range(log[i]) : e.kind = "completed" /\ e.n = pages_crawled[i]

\* what is left of a crawl: the budget not yet used, the frontier entries
\* not yet popped, and the steps left in the iteration in hand
Stage(p) ==
    CASE p = "init" -> 4
      [] p = "get" -> 3
      [] p = "extract" -> 2
      [] p = "loop" -> 1
      [] OTHER -> 0
Measure(i) == <<max_pages[i] - pages_crawled[i], Len(pages_to_visit[i]), Stage(pc[i])>>
LexLess(a, b) ==
    \/ a[1] < b[1]
    \/ a[1] = b[1] /\ a[2] < b[2]
    \/ a[1] = b[1] /\ a[2] = b[2] /\ a[3] < b[3]
Progresses(i) ==
    /\ max_pages[i] - pages_crawled[i] >= 0
    /\ LexLess(Measure(i)', Measure(i))
    /\ \A j \in Instances \ {i} : Measure(j)' = Measure(j)

\* C6: every crawl terminates and emits its completion event, by budget or
\* by frontier exhaustion, however often fetches fail: a crawl that has not
\* emitted its completion event can always take a step, and every step
\* makes what is left of the crawl smaller in a well-founded order (failed
\* fetches included: they shorten the frontier without using the budget), so
\* a crawl that keeps running reaches the completion event.
C6_Terminates ==
    /\ []((\A i \in Instances : Completed(i)) \/ ENABLED Next)
    /\ [][\E i \in Instances : Progresses(i)]_vars

\* the same as a liveness property of the fair specification
C6_EventuallyCompleted == <>(\A i \in Instances : Completed(i))

\* a crawl that ended on its budget with the frontier not empty, after a
\* failed fetch
C6_Witness ==
    \E i \in Instances :
        /\ Completed(i)
        /\ pages_to_visit[i] # <<>>
        /\ pages_crawled[i] = max_pages[i]
        /\ Failed(i) # {}

\* a crawl that ended because the frontier ran empty
C6_WitnessExhausted ==
    \E i \in Instances :
        /\ Completed(i)
        /\ pages_to_visit[i] = <<>>
        /\ pages_crawled[i] < max_pages[i]

-----------------------------------------------------------------------------
(* Properties of the scorer *)

AllWhitespace(t) == \A k \in 1..Len(t) : t[k] = " "
BraceFree(t) == \A k \in 1..Len(t) : t[k] \notin {"{", "}"}
\* evaluate_website went past the collaborator call and returned
Evaluated == s_pc = "returned" /\ s_outcome # "Error calling Gemini API"

\* the required top-level fields with their coarse types: total_score,
\* disqualified, and scores a mapping
SchemaValid(v) ==
    /\ v.kind = "obj"
    /\ v.t
    /\ v.d
    /\ v.s # <<>>
    /\ v.s[1].kind = "obj"

\* C7: evaluate called with an empty or whitespace-only corpus
\* text fails with EmptyInput and invokes the collaborator zero times.
C7_EvaluateRejectsBlank ==
    (s_pc = "returned" /\ AllWhitespace(s_content))
    => (s_outcome = "EmptyInput" /\ s_calls = 0)

\* the guard the callers apply: a scoring run started by main on an empty or
\* whitespace-only corpus text reports the empty file and stops before
\* evaluate_website, so the collaborator is invoked zero times in that run.
C7_MainRejectsBlank ==
    (s_caller = "main" /\ AllWhitespace(s_content))
    => (s_pc = "exit" /\ s_outcome = "EmptyFile" /\ s_calls = 0 /\ s_result.kind = "none")

\* main read a whitespace-only corpus and stopped
C7_Witness ==
    /\ s_caller = "main"
    /\ s_content = <<" ", " ">>
    /\ s_pc = "exit"
    /\ s_calls = 0

\* the span from the first "{" to the last "}" of the stripped response
SpanOf(text) ==
    LET t == Strip(text)
        first == Find(t, "{")
        last == RFind(t, "}")
    IN IF first = -1 \/ last < first THEN <<>> ELSE SubSeq(t, first + 1, last + 1)

\* C8: when the response holds a JSON object that parses but lacks a required
\* top-level field or has it with the wrong coarse type, evaluate fails with
\* SchemaViolation and returns no result object.
C8_SchemaViolationRejected ==
    (Evaluated /\ JsonLoads(SpanOf(s_response)).kind = "obj"
               /\ ~SchemaValid(JsonLoads(SpanOf(s_response))))
    => (s_outcome = "SchemaViolation" /\ s_result = None)

\* C9: when the response has no "{", or the span from the first "{" to the
\* last "}" is empty, evaluate fails with NoJsonFound (the branch that could
\* not extract JSON) and attempts no parse.
C9_NoJsonFound ==
    (Evaluated /\ SpanOf(s_response) = <<>>)
    => (s_outcome = "Could not extract JSON" /\ s_loads = 0)

\* C10: when the response is a valid score-result object surrounded by prose
\* that contains no braces, evaluate returns exactly the object obtained by
\* parsing the embedded text, whatever the prose is.
C10_EmbeddedObjectReturned ==
    Evaluated =>
        \A a, b \in 0..Len(s_response) :
            (/\ a <= b
             /\ BraceFree(SubSeq(s_response, 1, a))
             /\ BraceFree(SubSeq(s_response, b + 1, Len(s_response)))
             /\ SchemaValid(JsonLoads(SubSeq(s_response, a + 1, b))))
            => /\ s_outcome = "returned result"
               /\ s_result = JsonLoads(SubSeq(s_response, a + 1, b))

\* "p <object> p" with a nested scores object came back as that object
C10_Witness ==
    /\ s_pc = "returned"
    /\ s_response = <<"p", " ", "{", "t", ",", "d", ",", "s", "{", "}", "}", " ", "p">>
    /\ s_result = [kind |-> "obj", t |-> TRUE, d |-> TRUE, s |-> <<EmptyObject>>]

\* C11: one call of evaluate on non-empty input invokes the collaborator
\* exactly once; when that invocation errors, evaluate returns the
\* collaborator-error failure to its caller (no exception leaves it, no
\* parse is attempted) and the collaborator is not invoked a second time.
C11_OneCollaboratorCall ==
    /\ s_calls <= 1
    /\ (s_pc \in {"extract", "returned"} /\ ~AllWhitespace(s_content)) => s_calls = 1
    /\ s_outcome = "Error calling Gemini API"
       => (s_pc = "returned" /\ s_result = None /\ s_calls = 1 /\ s_loads = 0)

\* evaluate_website was called on non-empty content, the collaborator raised
\* and the call came back with the failure
C11_Witness ==
    /\ s_pc = "returned"
    /\ s_content = <<"p">>
    /\ s_outcome = "Error calling Gemini API"
    /\ s_result = None
    /\ s_calls = 1

-----------------------------------------------------------------------------
(* Further properties of the crawl *)

Gets(i, u) == {k \in 1..Len(log[i]) : log[i][k].kind = "get" /\ log[i][k].url = u}
FailedGets(i) == {k \in 1..Len(log[i]) : log[i][k].kind = "get" /\ log[i][k].n = 0}

\* C12: a failed fetch emits an error progress event, adds the URL to the
\* visited set, leaves the corpus and the pages-crawled counter unchanged, is
\* never repeated for that URL in the run, and the crawl continues with the
\* next frontier entry: no failure aborts the run before the completion event.
C12_FailedFetchAbsorbed ==
    /\ [](\A i \in Instances :
            /\ \A k \in FailedGets(i) :
                  /\ k < Len(log[i])
                  /\ log[i][k + 1].kind = "error"
                  /\ log[i][k + 1].url = log[i][k].url
                  /\ log[i][k].url \in visited_urls[i]
                  /\ log[i][k].url \notin Range(file)
                  /\ Gets(i, log[i][k].url) = {k}
            /\ pc[i] # "done" => ENABLED Next)
    /\ [][\A i \in Instances :
            FailedGets(i)' # FailedGets(i)
            => /\ file' = file
               /\ pages_crawled'[i] = pages_crawled[i]
               /\ pages_to_visit'[i] = pages_to_visit[i]
               /\ pc'[i] = "loop"]_vars

\* a finished crawl in which the fetch of a page failed, the page came up in
\* the frontier a second time and was skipped, and a later page was written
C12_Witness ==
    \E i \in Instances :
        /\ pc[i] = "done"
        /\ \E k \in FailedGets(i) :
              /\ log[i][k].url.netloc = domain[i]
              /\ Cardinality({j \in 1..Len(enqueued[i]) : enqueued[i][j] = log[i][k].url}) = 2
              /\ \E j \in 1..Len(log[i]) : j > k /\ log[i][j].kind = "get" /\ log[i][j].n = 200
        /\ pages_to_visit[i] = <<>>

\* the cancellation of instance i takes effect in this step
Cancelled(i) == pc[i] # "interrupted" /\ pc'[i] = "interrupted"

\* the page blocks of the corpus whose URL the run has not marked visited
Unmarked(i) == {u \in Range(file) : u \notin visited_urls[i]}

\* C13: a cancellation raised during a crawl is observed at the top of the next
\* loop iteration: the run stops there, between two iterations, so that every
\* page block of the corpus belongs to a completed iteration (its URL is marked
\* visited), the stop itself writes nothing, and after it the run issues no
\* fetch and the corpus keeps exactly the blocks it held
C13_CancelAtLoopTop ==
    [][\A i \in Instances :
          /\ Cancelled(i) => /\ pc[i] = "loop"
                             /\ Unmarked(i) = {}
                             /\ file' = file
          /\ pc[i] = "interrupted" => /\ pc'[i] = "interrupted"
                                      /\ file' = file
                                      /\ Gets(i, current_url[i])' = Gets(i, current_url[i])]_vars

\* an interrupted run whose last block belongs to an iteration cut short
C13_CutShort ==
    \E i \in Instances :
       /\ pc[i] = "interrupted"
       /\ Unmarked(i) # {}
       /\ pages_crawled[i] < Len(file)

\* the URLs of the page blocks run i wrote, in the order of its writes
OkGets(i) == SelectSeq(log[i], LAMBDA e : e.kind = "get" /\ e.n = 200)
Written(i) == [k \in 1..Len(OkGets(i)) |-> OkGets(i)[k].url]

\* C14: two runs on separate instances, interleaved in any order, do not
\* interfere: when a run completes, the corpus it produced holds exactly the
\* page blocks that run wrote, in the order it wrote them, and none of the other
\* run's
C14_RunsDoNotInterfere ==
    \A i \in Instances : pc[i] = "done" => file = Written(i)

\* the attributes of one instance
Attributes(i) ==
    <<pages_to_visit[i], visited_urls[i], pages_crawled[i], current_url[i], html[i]>>

\* each run keeps its own frontier and visited set: a step changes the
\* attributes of one instance at most
C14_OwnFrontierAndVisited ==
    [][\E j \in Instances :
          \A i \in Instances \ {j} : Attributes(i)' = Attributes(i)]_vars

\* a completed run whose corpus was truncated by the other run's open
C14_Truncated ==
    \E i \in Instances :
       /\ pc[i] = "done"
       /\ Written(i) # <<>>
       /\ file = <<>>

\* C15: a URL is appended to the frontier at most once during a run: the
\* frontier's history, the seed included, holds no URL twice, be the link one
\* to the page being processed or one that occurs twice on a page
C15_EnqueuedAtMostOnce ==
    \A i \in Instances :
       \A j, k \in 1..Len(enqueued[i]) :
          enqueued[i][j] = enqueued[i][k] => j = k

\* the page being processed is appended to the frontier by its own link
C15_SelfLinkEnqueued ==
    \E i \in Instances : enqueued[i] = <<Seed, Seed>> /\ Len(order[i]) = 1

\* a link that occurs twice on one page is appended twice
C15_RepeatedLinkEnqueued ==
    \E i \in Instances :
       /\ enqueued[i] = <<Seed, Url(NetlocD, "/a"), Url(NetlocD, "/a")>>
       /\ Len(order[i]) = 1

\* the positions of the fetches in the log of run i
Fetches(i) == {k \in 1..Len(log[i]) : log[i][k].kind = "get"}

\* C16: between any two consecutive fetches of a crawl the politeness delay
\* elapses: whether the earlier fetch succeeded or failed, a sleep lies between
\* it and the next fetch
C16_SleepBetweenFetches ==
    \A i \in Instances :
       \A j, k \in Fetches(i) :
          j < k => \E m \in (j + 1)..(k - 1) : log[i][m].kind = "sleep"

\* a fetch issued straight after a failed one
C16_NoSleepAfterFailure ==
    \E i \in Instances :
       \E j, k \in Fetches(i) :
          /\ j < k
          /\ log[i][j].n = 0
          /\ \A m \in (j + 1)..(k - 1) : log[i][m].kind \notin {"sleep", "get"}

\* what does hold: the delay elapses after every iteration that ran to its end
C16_SleepAfterSuccess ==
    \A i \in Instances :
       \A j, k \in Fetches(i) :
          (j < k /\ log[i][j].n = 200 /\ log[i][j + 1].kind # "error")
          => \E m \in (j + 1)..(k - 1) : log[i][m].kind = "sleep"

\* the pages_crawled count carried by the completion message of run i
CompletionCounts(i) ==
    {log[i][k].n : k \in {j \in 1..Len(log[i]) : log[i][j].kind = "completed"}}

\* C17: in every reachable state the corpus holds at most max_pages page
\* blocks, each block was written before its URL was added to the visited set,
\* and at loop exit the count the completion message carries is the number of
\* page blocks in the corpus
C17_BlocksWithinBudgetAndCounted ==
    /\ [](\A i \in Instances :
            /\ Len(file) <= max_pages[i]
            /\ pc[i] = "done" => CompletionCounts(i) = {Len(file)})
    /\ [][\A i \in Instances :
            /\ Len(file') > Len(file) => file'[Len(file')] \notin visited_urls[i]
            /\ \A u \in visited_urls[i]' \ visited_urls[i] :
                  u \in Range(Written(i)) => u \in Range(file)]_vars

\* a completed run with more blocks than its budget and than it counted
C17_UncountedBlock ==
    \E i \in Instances :
       /\ pc[i] = "done"
       /\ Len(file) > max_pages[i]
       /\ CompletionCounts(i) = {max_pages[i]}

\* what does hold: a block is written before its URL is marked visited, the
\* count never exceeds the number of blocks, and the two agree whenever no
\* link extraction raised
C17_BlockBeforeVisited ==
    /\ [](\A i \in Instances :
            /\ pages_crawled[i] <= Len(file)
            /\ (\A k \in 1..Len(log[i]) : log[i][k].kind = "error" => log[i][k - 1].n = 0)
               => (pc[i] = "done" => CompletionCounts(i) = {Len(file)}))
    /\ [][\A i \in Instances :
            /\ Len(file') > Len(file) => file'[Len(file')] \notin visited_urls[i]
            /\ \A u \in visited_urls[i]' \ visited_urls[i] :
                  u \in Range(Written(i)) => u \in Range(file)]_vars

\* a call of crawl() on instance i begins in this step
CrawlBegins(i) == pc[i] \in {"init", "done"} /\ pc'[i] = "loop"

\* the log of run i from its latest start message on
LastStart(i) ==
    Max({0} \cup {k \in 1..Len(log[i]) : log[i][k].kind = "start"})
SinceLastStart(i) == {k \in 1..Len(log[i]) : k > LastStart(i)}

\* C18: every invocation of crawl starts from frontier = [seed], visited = {}
\* and pages_crawled = 0, whatever an earlier call on the instance left in the
\* frontier and the visited set, and a call that has completed has fetched the
\* seed
C18_EveryCallStartsFresh ==
    /\ [](\A i \in Instances :
            pc[i] = "done"
            => \E k \in SinceLastStart(i) :
                  log[i][k].kind = "get" /\ log[i][k].url = base_url[i])
    /\ [][\A i \in Instances :
            CrawlBegins(i)
            => /\ pages_to_visit'[i] = <<base_url[i]>>
               /\ visited_urls'[i] = {}
               /\ pages_crawled'[i] = 0]_vars

\* a second call that completed without a single fetch
C18_SecondCallFetchesNothing ==
    \E i \in Instances :
       /\ pc[i] = "done"
       /\ Calls(i) = 2
       /\ \A k \in SinceLastStart(i) : log[i][k].kind # "get"

\* a second call that went on with what the first call left in the frontier
C18_SecondCallResumes ==
    \E i \in Instances :
       /\ pc[i] = "done"
       /\ Calls(i) = 2
       /\ \E k \in SinceLastStart(i) : log[i][k].kind = "get" /\ log[i][k].n = 200
       /\ Seed \notin Range(file)

\* what does hold: the first call starts from the state the claim names, and
\* every call starts with pages_crawled = 0 and an empty corpus
C18_FirstCallStartsFresh ==
    [][\A i \in Instances :
          CrawlBegins(i)
          => /\ pages_crawled'[i] = 0
             /\ file' = <<>>
             /\ pc[i] = "init" => /\ pages_to_visit'[i] = <<base_url[i]>>
                                  /\ visited_urls'[i] = {}]_vars

=============================================================================
